---------------------------- MODULE Spec2Model ----------------------------
(***************************************************************************)
(* Model of the YouTube transcript endpoints of tubetotext.ai              *)
(* (backend/app/api/v1/endpoints/youtube.py).                              *)
(*                                                                         *)
(* Python strings are sequences of string fragments: a URL is a sequence   *)
(* of one-character strings, a message is a sequence of message parts, so  *)
(* that concatenation (+, f-strings) is \o and a regular-expression search *)
(* walks the characters as re.search does.                                 *)
(***************************************************************************)
EXTENDS Integers, Sequences, FiniteSets, TLC

(***************************************************************************)
(* Bounds of the model.                                                    *)
(***************************************************************************)
\* Longest transcript enumeration the provider returns for one video.
MaxLangs == 2

\* The two request slots served by the one event loop of the process.
Requests == {"r1", "r2"}

(***************************************************************************)
(* Values.                                                                 *)
(***************************************************************************)
\* Python's None, for Optional[str] values (never a character sequence).
None == <<"None">>

Range(s) == {s[i] : i \in 1..Len(s)}

\* s[from..] as a sequence (empty when from > Len(s)).
Drop(s, from) == IF from > Len(s) THEN <<>> ELSE SubSeq(s, from, Len(s))

\* lit occurs in s starting at position p.
StartsAt(s, p, lit) ==
    /\ p >= 1
    /\ p + Len(lit) - 1 <= Len(s)
    /\ \A i \in 1..Len(lit) : s[p + i - 1] = lit[i]

(***************************************************************************)
(* Character sequences the URLs are built from.                            *)
(***************************************************************************)
c_https == <<"h","t","t","p","s",":","/","/">>
c_youtube_com == <<"y","o","u","t","u","b","e",".","c","o","m">>
c_youtu_be == <<"y","o","u","t","u",".","b","e">>
c_www == <<"w","w","w",".">>
c_m == <<"m",".">>
c_YouTube_com == <<"Y","o","u","T","u","b","e",".","c","o","m">>
c_evil_com == <<"e","v","i","l",".","c","o","m">>
c_port == <<":","4","4","3">>
c_watch == <<"w","a","t","c","h","?","v","=">>
c_embed == <<"e","m","b","e","d","/">>
c_v == <<"v","/">>
c_x == <<"x","/">>
c_abc123 == <<"a","b","c","1","2","3">>
c_t30 == <<"&","t","=","3","0">>

(***************************************************************************)
(* urllib.parse.urlparse(v).netloc and str.lower(), as the validator uses  *)
(* them.                                                                   *)
(***************************************************************************)
SchemeChars ==
    {"a","b","c","d","e","h","i","l","m","o","p","s","t","u","v","w","x","y",
     "Y","T","1","2","3","4","0","+","-","."}

\* str.lower() on the characters that occur in the modelled URLs.
LowerChar(c) == CASE c = "Y" -> "y" [] c = "T" -> "t" [] OTHER -> c

Lower(s) == [i \in 1..Len(s) |-> LowerChar(s[i])]

\* Position of the first element of s at or after p that is in set cs,
\* Len(s)+1 when there is none.
RECURSIVE FirstIn(_, _, _)
FirstIn(s, p, cs) ==
    IF p > Len(s) THEN Len(s) + 1
    ELSE IF s[p] \in cs THEN p
    ELSE FirstIn(s, p + 1, cs)

\* urlsplit: tab, CR and LF are removed; a leading "scheme:" is split off; a
\* rest that starts with "//" has its netloc up to the first of / ? #.
Netloc(v) ==
    LET u == SelectSeq(v, LAMBDA c : c \notin {"\t", "\r", "\n"})
        colon == FirstIn(u, 1, {":"})
        hasScheme == /\ colon <= Len(u)
                     /\ colon > 1
                     /\ \A i \in 1..(colon - 1) : u[i] \in SchemeChars
        rest == IF hasScheme THEN Drop(u, colon + 1) ELSE u
    IN  IF StartsAt(rest, 1, <<"/","/">>)
        THEN SubSeq(rest, 3, FirstIn(rest, 3, {"/","?","#"}) - 1)
        ELSE <<>>

(***************************************************************************)
(* extract_video_id: two regular expressions tried in order with           *)
(* re.search.                                                              *)
(***************************************************************************)
\* Mutant of Excluded: the class written without "&".
ExcludedWithoutAmp == {"\n", "?", "#"}

\* The negated character class [^&\n?#].
Excluded == {"&", "\n", "?", "#"}

\* (?:youtube\.com\/watch\?v=|youtu\.be\/|youtube\.com\/embed\/)
Pattern1 == << c_youtube_com \o <<"/">> \o c_watch,
               c_youtu_be \o <<"/">>,
               c_youtube_com \o <<"/">> \o c_embed >>

\* youtube\.com\/v\/
Pattern2 == << c_youtube_com \o <<"/">> \o c_v >>

\* ([^&\n?#]+) from position q: the greedy run, possibly empty.
Group(s, q) == SubSeq(s, q, FirstIn(s, q, Excluded) - 1)

\* The alternatives of alts (from the k-th on) tried at position p: the
\* captured group of the first one whose literal matches and whose group is
\* not empty, None when no alternative matches at p.
RECURSIVE MatchAt(_, _, _, _)
MatchAt(s, p, alts, k) ==
    IF k > Len(alts) THEN None
    ELSE IF /\ StartsAt(s, p, alts[k])
            /\ Group(s, p + Len(alts[k])) # <<>>
         THEN Group(s, p + Len(alts[k]))
         ELSE MatchAt(s, p, alts, k + 1)

\* re.search: the match at the leftmost position that has one.
RECURSIVE Search(_, _, _)
Search(s, p, alts) ==
    IF p > Len(s) THEN None
    ELSE IF MatchAt(s, p, alts, 1) # None THEN MatchAt(s, p, alts, 1)
    ELSE Search(s, p + 1, alts)

extract_video_id(u) ==
    IF Search(u, 1, Pattern1) # None THEN Search(u, 1, Pattern1)
    ELSE IF Search(u, 1, Pattern2) # None THEN Search(u, 1, Pattern2)
    ELSE None

(***************************************************************************)
(* Request inputs.                                                         *)
(***************************************************************************)
HostParts ==
    {c_youtube_com, c_www \o c_youtube_com, c_youtu_be, c_www \o c_youtu_be,
     c_m \o c_youtube_com, c_YouTube_com, c_evil_com, c_youtube_com \o c_port}

PathParts ==
    {<<>>, c_watch, c_embed, c_v, c_x \o c_watch, c_x \o c_embed,
     c_youtu_be \o <<"/">>}

IdParts == {<<>>, c_abc123}

TailParts == {<<>>, c_t30, <<"#","x">>, <<"?","x">>, <<"\n","x">>}

\* Every URL a caller of the handler function is modelled to pass.
AllURLs ==
    {<<>>} \cup
    {s \o h \o <<"/">> \o p \o i \o t :
        s \in {c_https, <<>>}, h \in HostParts, p \in PathParts,
        i \in IdParts, t \in TailParts}

u_watch == c_https \o c_www \o c_youtube_com \o <<"/">> \o c_watch \o c_abc123 \o c_t30
u_short == c_https \o c_youtu_be \o <<"/">> \o c_abc123
u_wwwshort == c_https \o c_www \o c_youtu_be \o <<"/">> \o c_abc123
u_home == c_https \o c_youtube_com \o <<"/">>
u_upper == c_https \o c_YouTube_com \o <<"/">> \o c_watch \o c_abc123
u_evil == c_https \o c_evil_com \o <<"/">> \o c_youtu_be \o <<"/">> \o c_abc123
u_port == c_https \o c_youtube_com \o c_port \o <<"/">> \o c_watch \o c_abc123

\* The URLs posted to /convert.
URLs == {<<>>, u_watch, u_wwwshort, u_home, u_upper, u_evil, u_port}

l_en == <<"en">>
l_es == <<"es">>
l_fr == <<"fr">>

\* Language codes of the provider's transcripts.
Langs == {l_en, l_es, l_fr}

\* Values of request.language ('en' is the default).
ReqLangs == {l_en, l_es}

(***************************************************************************)
(* Exceptions: class, message (str(e) for all but HTTPException) and, for  *)
(* an HTTPException, the status code.                                      *)
(***************************************************************************)
Exc(cls, msg) == [cls |-> cls, msg |-> msg, status_code |-> 0]

NoExc == Exc("", <<>>)

ValueError(msg) == Exc("ValueError", msg)

HTTPException(status_code, detail) ==
    [cls |-> "HTTPException", msg |-> detail, status_code |-> status_code]

\* Raised by next() on an exhausted iterator; str() of it is empty.
StopIteration == Exc("StopIteration", <<>>)

\* The provider's "no transcript" failure.
TranscriptsDisabled ==
    Exc("TranscriptsDisabled", <<"Subtitles are disabled for this video">>)

\* A provider infrastructure failure (the network call itself fails).
ConnectionError == Exc("ConnectionError", <<"Connection refused">>)

\* Raised by the formatter on a transcript body it cannot read.
KeyError == Exc("KeyError", <<"'text'">>)

ProviderErrors == {TranscriptsDisabled, ConnectionError}

InfrastructureErrors == {ConnectionError}

\* str(e): Starlette's HTTPException prints "<status>: <detail>".
Str(e) ==
    IF e.cls = "HTTPException"
    THEN <<IF e.status_code = 400 THEN "400" ELSE "500", ": ">> \o e.msg
    ELSE e.msg

(***************************************************************************)
(* YouTubeURLRequest.validate_youtube_url: the exception it raises, NoExc  *)
(* when it returns v.                                                      *)
(***************************************************************************)
valid_domains ==
    {c_youtube_com, c_www \o c_youtube_com, c_youtu_be, c_www \o c_youtu_be,
     c_m \o c_youtube_com}

\* Mutant of validate_youtube_url: the domain check left out.
validate_without_domain_check(v) ==
    IF v = <<>>
    THEN ValueError(<<"URL cannot be empty">>)
    ELSE IF extract_video_id(v) = None
    THEN ValueError(<<"Invalid YouTube URL format">>)
    ELSE NoExc

validate_youtube_url(v) ==
    IF v = <<>>
    THEN ValueError(<<"URL cannot be empty">>)
    ELSE IF Lower(Netloc(v)) \notin valid_domains
    THEN ValueError(<<"URL must be from YouTube domain (youtube.com or youtu.be)">>)
    ELSE IF extract_video_id(v) = None
    THEN ValueError(<<"Invalid YouTube URL format">>)
    ELSE NoExc

(***************************************************************************)
(* The transcript provider (youtube_transcript_api) as get_video_transcript*)
(* uses it.                                                                *)
(***************************************************************************)
Transcript(code) == [language_code |-> code]

SeqsUpTo(S, n) == UNION {[1..k -> S] : k \in 0..n}

\* What list_transcripts can enumerate for a video.
TranscriptLists == SeqsUpTo({Transcript(l) : l \in Langs}, MaxLangs)

\* What transcript.fetch() returns: the segments of that transcript, which
\* the formatter may or may not be able to read.
TranscriptData(t, wellformed) ==
    [language_code |-> t.language_code, wellformed |-> wellformed]

\* TextFormatter().format_transcript on well-formed data: the flat text.
format_transcript(data) == <<"text of ">> \o data.language_code

\* available_languages: the language codes in the enumeration's order.
language_codes(transcript_list) ==
    [i \in 1..Len(transcript_list) |-> transcript_list[i].language_code]

\* Position of the first transcript in the requested language, 0 if none.
RECURSIVE IndexOf(_, _, _)
IndexOf(transcript_list, language, i) ==
    IF i > Len(transcript_list) THEN 0
    ELSE IF transcript_list[i].language_code = language THEN i
    ELSE IndexOf(transcript_list, language, i + 1)

\* Mutant of first_available: the fallback takes the last transcript.
last_available(transcript_list) == transcript_list[Len(transcript_list)]

\* The transcript the bare except falls back to: next(iter(transcript_list)).
first_available(transcript_list) == transcript_list[1]

\* find_transcript([language]) with the fallback to the first transcript:
\* the exception raised (NoExc if none), the transcript and the language.
find_or_first(transcript_list, language) ==
    LET i == IndexOf(transcript_list, language, 1) IN
    IF i # 0
    THEN [raised |-> NoExc, transcript |-> transcript_list[i],
          language |-> language]
    ELSE IF transcript_list = <<>>
    THEN [raised |-> StopIteration, transcript |-> Transcript(None),
          language |-> language]
    ELSE [raised |-> NoExc,
          transcript |-> first_available(transcript_list),
          language |-> first_available(transcript_list).language_code]

(***************************************************************************)
(* get_video_transcript: what it hands to its caller, either a returned    *)
(* dict or a raised exception.                                             *)
(***************************************************************************)
Returned(d) == [raised |-> NoExc, result |-> d]

NoResult ==
    [transcript |-> None, language |-> None, available_languages |-> <<>>,
     success |-> FALSE, error |-> None]

Raised(e) == [raised |-> e, result |-> NoResult]

\* No call made yet.
NotCalled == [raised |-> NoExc, result |-> NoResult]

\* The return of the try block.
transcript_success(text_transcript, language, available_languages) ==
    Returned([transcript |-> text_transcript, language |-> language,
              available_languages |-> available_languages,
              success |-> TRUE, error |-> None])

\* Mutant of transcript_except: the exception is raised again.
transcript_reraise(e, available_languages) == Raised(e)

\* Mutant of transcript_except: only the provider's "no transcript" errors
\* are caught, infrastructure errors escape.
transcript_except_infrastructure_escapes(e, available_languages) ==
    IF e.cls = "ConnectionError"
    THEN Raised(e)
    ELSE Returned([transcript |-> None, language |-> None,
                   available_languages |-> <<>>, success |-> FALSE,
                   error |-> Str(e)])

\* Mutant of transcript_except: the languages recorded so far are kept.
transcript_except_keeps_languages(e, available_languages) ==
    Returned([transcript |-> None, language |-> None,
              available_languages |-> available_languages,
              success |-> FALSE, error |-> Str(e)])

\* except Exception as e: with available_languages as the local variable
\* stands when e is caught.
transcript_except(e, available_languages) ==
    Returned([transcript |-> None, language |-> None,
              available_languages |-> <<>>, success |-> FALSE,
              error |-> Str(e)])

(***************************************************************************)
(* get_video_info and the body of convert_youtube_to_text.                 *)
(***************************************************************************)
get_video_info(video_id, transcript_result) ==
    [title |-> <<"Video ">> \o video_id,
     transcript |-> transcript_result.transcript,
     transcript_language |-> transcript_result.language,
     available_languages |-> transcript_result.available_languages,
     transcript_available |-> transcript_result.success]

Note == " (Note: Transcript not available for this video)"

\* Mutant of success_message: the condition of the note inverted.
success_message_inverted(transcript_available) ==
    <<"Successfully converted YouTube video to text">>
        \o (IF transcript_available THEN <<Note>> ELSE <<>>)

success_message(transcript_available) ==
    <<"Successfully converted YouTube video to text">>
        \o (IF ~transcript_available THEN <<Note>> ELSE <<>>)

\* An HTTP response: the status, and the fields of YouTubeResponse (200) or
\* the detail of the error.
Response(status, success, message, data, detail) ==
    [status |-> status, success |-> success, message |-> message,
     has_data |-> data.has_data, video_id |-> data.video_id,
     transcript |-> data.transcript,
     transcript_language |-> data.transcript_language,
     available_languages |-> data.available_languages,
     detail |-> detail, error |-> None]

NoData ==
    [has_data |-> FALSE, video_id |-> None, transcript |-> None,
     transcript_language |-> None, available_languages |-> <<>>]

NoResponse == Response(0, FALSE, None, NoData, None)

ErrorResponse(status, detail) == Response(status, FALSE, None, NoData, detail)

\* YouTubeVideoInfo(...) and YouTubeResponse(success=True, ...).
success_response(video_id, video_data) ==
    Response(200, TRUE, success_message(video_data.transcript_available),
             [has_data |-> TRUE, video_id |-> video_id,
              transcript |-> video_data.transcript,
              transcript_language |-> video_data.transcript_language,
              available_languages |-> video_data.available_languages],
             None)

\* The except clauses of convert_youtube_to_text.
handler_except(e) ==
    IF e.cls = "ValueError"
    THEN ErrorResponse(400, Str(e))
    ELSE ErrorResponse(500, <<"Error processing YouTube video: ">> \o Str(e))

\* The response once get_video_info has been awaited.
convert_response(video_id, outcome) ==
    IF outcome.raised # NoExc
    THEN handler_except(outcome.raised)
    ELSE success_response(video_id, get_video_info(video_id, outcome.result))

\* The payload of GET /supported-formats.
supported_formats ==
    [supported_formats |->
        << c_https \o c_www \o c_youtube_com \o <<"/">> \o c_watch \o <<"VIDEO_ID">>,
           c_https \o c_youtube_com \o <<"/">> \o c_watch \o <<"VIDEO_ID">>,
           c_https \o c_youtu_be \o <<"/", "VIDEO_ID">>,
           c_https \o c_www \o c_youtube_com \o <<"/">> \o c_embed \o <<"VIDEO_ID">>,
           c_https \o c_m \o c_youtube_com \o <<"/">> \o c_watch \o <<"VIDEO_ID">> >>,
     domains |->
        << c_youtube_com, c_www \o c_youtube_com, c_youtu_be,
           c_m \o c_youtube_com >>]

NotAsked == [supported_formats |-> <<>>, domains |-> <<>>]

(***************************************************************************)
(* State.                                                                  *)
(***************************************************************************)
VARIABLES
    pc,         \* where each request is: idle, arrived, handler, list, fetch, done
    url,        \* request.url
    language,   \* request.language
    entry,      \* how the handler was entered: "http", "direct", "" (not yet)
    video_id,   \* the handler's video_id local
    frame,      \* get_video_transcript's locals while it is inside the provider
    provider,   \* what the provider did for the request
    outcome,    \* what get_video_transcript handed to its caller
    resp,       \* the HTTP response sent
    loop,       \* the request whose coroutine the event loop is running
    formats     \* the last payload GET /supported-formats returned

vars ==
    <<pc, url, language, entry, video_id, frame, provider, outcome, resp,
      loop, formats>>

\* The event loop runs no coroutine.
NoOne == "none"

NoFrame ==
    [available_languages |-> <<>>, transcript |-> Transcript(None),
     language |-> None]

NoProvider ==
    [listed |-> FALSE, transcripts |-> <<>>, fetched |-> FALSE,
     failure |-> NoExc]

Init ==
    /\ pc = [r \in Requests |-> "idle"]
    /\ url = [r \in Requests |-> <<>>]
    /\ language = [r \in Requests |-> l_en]
    /\ entry = [r \in Requests |-> ""]
    /\ video_id = [r \in Requests |-> None]
    /\ frame = [r \in Requests |-> NoFrame]
    /\ provider = [r \in Requests |-> NoProvider]
    /\ outcome = [r \in Requests |-> NotCalled]
    /\ resp = [r \in Requests |-> NoResponse]
    /\ loop = NoOne
    /\ formats = NotAsked

(***************************************************************************)
(* Actions.  The endpoint and the functions it awaits are coroutines that  *)
(* never suspend: the provider calls inside them are plain blocking calls, *)
(* so the event loop runs one request from its validation to its response  *)
(* and nothing else meanwhile.                                             *)
(***************************************************************************)
\* A POST /convert reaches the server.
Arrive(r) ==
    /\ pc[r] = "idle"
    /\ pc' = [pc EXCEPT ![r] = "arrived"]
    /\ UNCHANGED <<url, language, entry, video_id, frame, provider, outcome,
                   resp, loop, formats>>

\* The body is bound to YouTubeURLRequest: the field validator runs, and a
\* ValueError it raises is answered 422 by the framework.
Validate(r) ==
    /\ pc[r] = "arrived"
    /\ loop = NoOne
    /\ \E u \in URLs, l \in ReqLangs :
        /\ url' = [url EXCEPT ![r] = u]
        /\ language' = [language EXCEPT ![r] = l]
        /\ entry' = [entry EXCEPT ![r] = "http"]
        /\ IF validate_youtube_url(u) # NoExc
           THEN /\ pc' = [pc EXCEPT ![r] = "done"]
                /\ resp' = [resp EXCEPT ![r] =
                        ErrorResponse(422, Str(validate_youtube_url(u)))]
                /\ loop' = NoOne
           ELSE /\ pc' = [pc EXCEPT ![r] = "handler"]
                /\ resp' = resp
                /\ loop' = r
    /\ UNCHANGED <<video_id, frame, provider, outcome, formats>>

\* convert_youtube_to_text is called with a request object that did not go
\* through the validator; the caller awaits it before it calls again.
CallHandler(r) ==
    /\ \A q \in Requests : pc[q] = "idle"
    /\ loop = NoOne
    /\ \E u \in AllURLs :
        /\ url' = [url EXCEPT ![r] = u]
        /\ language' = [language EXCEPT ![r] = l_en]
    /\ entry' = [entry EXCEPT ![r] = "direct"]
    /\ pc' = [pc EXCEPT ![r] = "handler"]
    /\ loop' = r
    /\ UNCHANGED <<video_id, frame, provider, outcome, resp, formats>>

\* The handler extracts the video id; without one it raises
\* HTTPException(400) inside its own try block, else it awaits
\* get_video_info, which calls list_transcripts.
Extract(r) ==
    /\ pc[r] = "handler"
    /\ loop = r
    /\ video_id' = [video_id EXCEPT ![r] = extract_video_id(url[r])]
    /\ IF extract_video_id(url[r]) = None
       THEN /\ resp' = [resp EXCEPT ![r] = handler_except(
                    HTTPException(400, <<"Could not extract video ID from URL">>))]
            /\ pc' = [pc EXCEPT ![r] = "done"]
            /\ loop' = NoOne
       ELSE /\ resp' = resp
            /\ pc' = [pc EXCEPT ![r] = "list"]
            /\ loop' = loop
    /\ UNCHANGED <<url, language, entry, frame, provider, outcome, formats>>

\* get_video_transcript ends with what it hands to its caller, and the
\* handler answers.
Finish(r, out) ==
    /\ outcome' = [outcome EXCEPT ![r] = out]
    /\ resp' = [resp EXCEPT ![r] = convert_response(video_id[r], out)]
    /\ pc' = [pc EXCEPT ![r] = "done"]
    /\ loop' = NoOne

\* list_transcripts raises.
ListRaises(r) ==
    /\ pc[r] = "list"
    /\ loop = r
    /\ \E e \in ProviderErrors :
        /\ provider' = [provider EXCEPT ![r].failure = e]
        /\ Finish(r, transcript_except(e, <<>>))
    /\ UNCHANGED <<url, language, entry, video_id, frame, formats>>

\* list_transcripts returns: the languages are recorded and a transcript is
\* selected; then either fetch() is called, or nothing could be selected.
ListReturns(r) ==
    /\ pc[r] = "list"
    /\ loop = r
    /\ \E transcript_list \in TranscriptLists :
        LET available_languages == language_codes(transcript_list)
            sel == find_or_first(transcript_list, language[r])
        IN  /\ provider' = [provider EXCEPT
                    ![r].listed = TRUE,
                    ![r].transcripts = transcript_list,
                    ![r].failure = sel.raised]
            /\ IF sel.raised # NoExc
               THEN /\ Finish(r, transcript_except(sel.raised, available_languages))
                    /\ frame' = frame
               ELSE /\ frame' = [frame EXCEPT ![r] =
                            [available_languages |-> available_languages,
                             transcript |-> sel.transcript,
                             language |-> sel.language]]
                    /\ pc' = [pc EXCEPT ![r] = "fetch"]
                    /\ UNCHANGED <<outcome, resp, loop>>
    /\ UNCHANGED <<url, language, entry, video_id, formats>>

\* transcript.fetch() raises.
FetchRaises(r) ==
    /\ pc[r] = "fetch"
    /\ loop = r
    /\ \E e \in InfrastructureErrors :
        /\ provider' = [provider EXCEPT ![r].failure = e]
        /\ Finish(r, transcript_except(e, frame[r].available_languages))
    /\ UNCHANGED <<url, language, entry, video_id, frame, formats>>

\* transcript.fetch() returns and the formatter renders the text, or raises
\* on a body it cannot read.
FetchReturns(r) ==
    /\ pc[r] = "fetch"
    /\ loop = r
    /\ \E wellformed \in BOOLEAN :
        LET transcript_data == TranscriptData(frame[r].transcript, wellformed)
        IN  IF wellformed
            THEN /\ provider' = [provider EXCEPT ![r].fetched = TRUE]
                 /\ Finish(r, transcript_success(
                        format_transcript(transcript_data),
                        frame[r].language, frame[r].available_languages))
            ELSE /\ provider' = [provider EXCEPT ![r].fetched = TRUE,
                                                 ![r].failure = KeyError]
                 /\ Finish(r, transcript_except(KeyError,
                        frame[r].available_languages))
    /\ UNCHANGED <<url, language, entry, video_id, frame, formats>>

\* The response has been delivered; the slot serves the next request.
Close(r) ==
    /\ pc[r] = "done"
    /\ pc' = [pc EXCEPT ![r] = "idle"]
    /\ url' = [url EXCEPT ![r] = <<>>]
    /\ language' = [language EXCEPT ![r] = l_en]
    /\ entry' = [entry EXCEPT ![r] = ""]
    /\ video_id' = [video_id EXCEPT ![r] = None]
    /\ frame' = [frame EXCEPT ![r] = NoFrame]
    /\ provider' = [provider EXCEPT ![r] = NoProvider]
    /\ outcome' = [outcome EXCEPT ![r] = NotCalled]
    /\ resp' = [resp EXCEPT ![r] = NoResponse]
    /\ UNCHANGED <<loop, formats>>

\* GET /supported-formats: a coroutine of the same event loop.
get_supported_youtube_formats ==
    /\ loop = NoOne
    /\ formats' = supported_formats
    /\ UNCHANGED <<pc, url, language, entry, video_id, frame, provider,
                   outcome, resp, loop>>

Provider(r) ==
    \/ ListRaises(r)
    \/ ListReturns(r)
    \/ FetchRaises(r)
    \/ FetchReturns(r)

\* The server: requests arrive over HTTP.
Next ==
    \/ \E r \in Requests :
        \/ Arrive(r)
        \/ Validate(r)
        \/ Extract(r)
        \/ Provider(r)
        \/ Close(r)
    \/ get_supported_youtube_formats

Spec == Init /\ [][Next]_vars

\* The handler function called directly, one call at a time.
NextDirect ==
    \E r \in Requests :
        \/ CallHandler(r)
        \/ Extract(r)
        \/ Provider(r)
        \/ Close(r)

SpecDirect == Init /\ [][NextDirect]_vars

(***************************************************************************)
(* Vocabulary of the properties.                                           *)
(***************************************************************************)
Done(r) == pc[r] = "done"

\* The request came over HTTP and has been answered.
Answered(r) == Done(r) /\ entry[r] = "http"

HasNote(message) == Note \in Range(message)

IsClientError(status) == status \in 400..499

\* The accepted hostnames: youtube.com, www.youtube.com, youtu.be,
\* www.youtu.be, m.youtube.com.
AcceptedHostParts ==
    {c_youtube_com, c_www \o c_youtube_com, c_youtu_be, c_www \o c_youtu_be,
     c_m \o c_youtube_com}

\* The host of a URL: its netloc without the port.
HostOf(u) == SubSeq(Netloc(u), 1, FirstIn(Netloc(u), 1, {":"}) - 1)

OnAcceptedHost(u) == Lower(HostOf(u)) \in AcceptedHostParts

\* The provider's lookup failed for the request, at whichever step.
LookupFailed(r) == provider[r].failure # NoExc

(***************************************************************************)
(* C1: a /convert request with a validated URL whose provider lookup fails *)
(* (list-transcripts raises, no transcript exists, the fetch or the        *)
(* formatting raises) is answered 200 with success = true, data present,   *)
(* data.transcript null and the transcript-unavailable note in the         *)
(* message, never 400 or 500.                                              *)
(***************************************************************************)
C1_LookupFailureIsSoftSuccess ==
    \A r \in Requests :
        (Answered(r) /\ LookupFailed(r)) =>
            /\ resp[r].status = 200
            /\ resp[r].success
            /\ resp[r].has_data
            /\ resp[r].transcript = None
            /\ HasNote(resp[r].message)

\* One request answered after list_transcripts raised, another after the
\* provider listed no transcript at all.
C1_Witness ==
    \E r, q \in Requests :
        /\ Answered(r) /\ provider[r].failure = TranscriptsDisabled
        /\ ~provider[r].listed
        /\ resp[r].status = 200
        /\ Answered(q) /\ provider[q].listed /\ provider[q].transcripts = <<>>
        /\ provider[q].failure = StopIteration
        /\ resp[q].status = 200

(***************************************************************************)
(* C3: a /convert request whose URL has a host outside the accepted set    *)
(* (compared case-insensitively), whatever its path and query, and a       *)
(* request whose URL has an accepted host but no extractable video         *)
(* identifier, never enters the handler and is answered with a client      *)
(* error, never with a success response.                                   *)
(***************************************************************************)
HostRejected == {u \in URLs : ~OnAcceptedHost(u)}

NoIdentifier == {u \in URLs : OnAcceptedHost(u) /\ extract_video_id(u) = None}

C3_BadUrlIsClientError ==
    \A r \in Requests :
        (entry[r] = "http" /\ url[r] \in HostRejected \cup NoIdentifier) =>
            /\ Done(r)
            /\ IsClientError(resp[r].status)
            /\ ~resp[r].success
            /\ ~resp[r].has_data

\* A foreign host whose path holds an extractable identifier, and the
\* accepted host with no identifier, both answered.
C3_Witness ==
    \E r, q \in Requests :
        /\ Answered(r) /\ url[r] = u_evil /\ u_evil \in HostRejected
        /\ extract_video_id(u_evil) = c_abc123
        /\ IsClientError(resp[r].status)
        /\ Answered(q) /\ url[q] = u_home /\ u_home \in NoIdentifier
        /\ IsClientError(resp[q].status)

(***************************************************************************)
(* C4: when the provider lists at least one transcript and the fetch and   *)
(* the formatting succeed, get_video_transcript reports the requested      *)
(* language if a transcript in exactly that language is listed, else the   *)
(* language code of the first listed transcript, and available_languages   *)
(* is the provider's enumeration in its order.                             *)
(***************************************************************************)
C4_EffectiveLanguage ==
    \A r \in Requests :
        (/\ Done(r)
         /\ provider[r].listed
         /\ provider[r].transcripts # <<>>
         /\ provider[r].fetched
         /\ provider[r].failure = NoExc) =>
            LET ts == provider[r].transcripts
                res == outcome[r].result
            IN  /\ outcome[r].raised = NoExc
                /\ res.success
                /\ res.language =
                     IF \E i \in 1..Len(ts) : ts[i].language_code = language[r]
                     THEN language[r]
                     ELSE ts[1].language_code
                /\ Len(res.available_languages) = Len(ts)
                /\ \A i \in 1..Len(ts) :
                     res.available_languages[i] = ts[i].language_code

\* Languages [es, fr] requested in en: es is used and [es, fr] reported.
C4_Witness ==
    \E r \in Requests :
        /\ Done(r)
        /\ language[r] = l_en
        /\ provider[r].transcripts = <<Transcript(l_es), Transcript(l_fr)>>
        /\ provider[r].fetched
        /\ outcome[r].result.success
        /\ outcome[r].result.language = l_es
        /\ outcome[r].result.available_languages = <<l_es, l_fr>>

(***************************************************************************)
(* C8: get_video_transcript never raises to its caller; on a failure at    *)
(* any step it returns success = false, transcript = None, language =      *)
(* None, available_languages = [] (also when the listing had succeeded)    *)
(* and the underlying failure's message as the error.                      *)
(***************************************************************************)
C8_TranscriptNeverRaises ==
    \A r \in Requests :
        /\ outcome[r].raised = NoExc
        /\ (Done(r) /\ LookupFailed(r)) =>
            /\ ~outcome[r].result.success
            /\ outcome[r].result.transcript = None
            /\ outcome[r].result.language = None
            /\ outcome[r].result.available_languages = <<>>
            /\ outcome[r].result.error = provider[r].failure.msg

\* The fetch failed after the listing had recorded two languages.
C8_Witness ==
    \E r \in Requests :
        /\ Done(r)
        /\ provider[r].listed
        /\ Len(provider[r].transcripts) = 2
        /\ provider[r].failure = ConnectionError
        /\ outcome[r].result.available_languages = <<>>
        /\ outcome[r].result.error = <<"Connection refused">>

(***************************************************************************)
(* C10: in every success response of /convert, data.transcript is present *)
(* iff data.transcript_language is present iff the message lacks the       *)
(* transcript-unavailable note; with a transcript, available_languages is  *)
(* non-empty and contains transcript_language; without one it is empty.    *)
(***************************************************************************)
C10_CoherentSuccessResponse ==
    \A r \in Requests :
        (resp[r].status = 200 /\ resp[r].success) =>
            /\ resp[r].has_data
            /\ (resp[r].transcript # None) <=> (resp[r].transcript_language # None)
            /\ (resp[r].transcript # None) <=> ~HasNote(resp[r].message)
            /\ (resp[r].transcript # None) =>
                 /\ resp[r].available_languages # <<>>
                 /\ resp[r].transcript_language \in Range(resp[r].available_languages)
            /\ (resp[r].transcript = None) => resp[r].available_languages = <<>>

\* One success response with a transcript and one without.
C10_Witness ==
    \E r, q \in Requests :
        /\ resp[r].status = 200 /\ resp[r].transcript # None
        /\ resp[q].status = 200 /\ resp[q].transcript = None

(***************************************************************************)
(* C2, as claimed: for a URL on an accepted host that contains             *)
(* `watch?v=ID`, `youtu.be/ID`, `embed/ID` or `/v/ID`, extract_video_id    *)
(* returns ID, the maximal run after the marker free of & ? # newline.     *)
(* Stated in its weakest reading: the result is the ID after some          *)
(* occurrence of some marker.                                              *)
(***************************************************************************)
Terminators == {"&", "?", "#", "\n"}

\* The maximal run of non-terminators of u that starts at q.
IdAt(u, q) ==
    LET e == CHOOSE k \in q..(Len(u) + 1) :
                /\ \A i \in q..(k - 1) : u[i] \notin Terminators
                /\ k = Len(u) + 1 \/ u[k] \in Terminators
    IN  SubSeq(u, q, e - 1)

\* The non-empty identifiers that follow an occurrence of a marker of M.
IdsAfter(u, M) ==
    {IdAt(u, p + Len(m)) : <<p, m>> \in
        {x \in (1..Len(u)) \X M : StartsAt(u, x[1], x[2])}} \ {<<>>}

SpecMarkers == {c_watch, c_youtu_be \o <<"/">>, c_embed, <<"/">> \o c_v}

\* The URL names, as written and without a port, one of the accepted
\* hostnames.
OnListedHost(u) == Netloc(u) \in AcceptedHostParts

\* The identifiers the claim allows, for each URL it covers.
ClaimedIds ==
    [u \in {w \in AllURLs : OnListedHost(w) /\ IdsAfter(w, SpecMarkers) # {}}
        |-> IdsAfter(u, SpecMarkers)]

\* The handler has computed video_id from the URL it was called with.
Extracted(r) == entry[r] = "direct" /\ pc[r] \notin {"idle", "handler"}

C2_AsClaimed ==
    \A r \in Requests :
        (Extracted(r) /\ url[r] \in DOMAIN ClaimedIds) =>
            video_id[r] \in ClaimedIds[url[r]]

(***************************************************************************)
(* C2, amended: the markers are `youtube.com/watch?v=`, `youtu.be/` and    *)
(* `youtube.com/embed/`, and only when none of them is followed by an      *)
(* identifier `youtube.com/v/`, matched case-sensitively anywhere in the   *)
(* URL; extract_video_id returns the identifier after the leftmost marker  *)
(* that is followed by a non-empty one, the maximal run free of & ? #      *)
(* newline.  `https://www.youtube.com/watch?v=abc123&t=30` and             *)
(* `https://youtu.be/abc123` both yield `abc123`.                          *)
(***************************************************************************)
CodeMarkers1 ==
    {c_youtube_com \o <<"/">> \o c_watch, c_youtu_be \o <<"/">>,
     c_youtube_com \o <<"/">> \o c_embed}

CodeMarkers2 == {c_youtube_com \o <<"/">> \o c_v}

\* Where a marker of M is followed by a non-empty identifier.
Occurrences(u, M) ==
    {p \in 1..Len(u) :
        \E m \in M : StartsAt(u, p, m) /\ IdAt(u, p + Len(m)) # <<>>}

LeftmostId(u, M) ==
    LET p == CHOOSE x \in Occurrences(u, M) :
                \A y \in Occurrences(u, M) : x <= y
        m == CHOOSE x \in M : StartsAt(u, p, x)
    IN  IdAt(u, p + Len(m))

AmendedIds ==
    [u \in {w \in AllURLs :
                /\ OnListedHost(w)
                /\ Occurrences(w, CodeMarkers1 \cup CodeMarkers2) # {}}
        |-> IF Occurrences(u, CodeMarkers1) # {}
            THEN LeftmostId(u, CodeMarkers1)
            ELSE LeftmostId(u, CodeMarkers2)]

C2_LeftmostFullMarker ==
    \A r \in Requests :
        Extracted(r) =>
            /\ url[r] \in DOMAIN AmendedIds => video_id[r] = AmendedIds[url[r]]
            /\ url[r] \in {u_watch, u_short} => video_id[r] = c_abc123

\* The handler called with https://www.youtube.com/watch?v=abc123&t=30 has
\* extracted abc123 and is inside list_transcripts.
C2_Witness ==
    \E r \in Requests :
        /\ Extracted(r)
        /\ url[r] = u_watch
        /\ u_watch \in DOMAIN AmendedIds
        /\ video_id[r] = c_abc123
        /\ pc[r] = "list"

(***************************************************************************)
(* C5: the domains GET /supported-formats reports are the hostnames the    *)
(* validator of /convert accepts: every reported domain is accepted, and   *)
(* every request that passed validation has a reported domain as its host. *)
(***************************************************************************)
C5_ReportedDomainsAreAccepted ==
    formats # NotAsked =>
        /\ \A d \in Range(formats.domains) : d \in AcceptedHostParts
        /\ \A r \in Requests :
            (entry[r] = "http" /\ pc[r] \in {"handler", "list", "fetch"}) =>
                Lower(HostOf(url[r])) \in Range(formats.domains)

(***************************************************************************)
(* C6: when the handler itself extracts no identifier, the request ends    *)
(* with a 400 response that carries the extraction failure message.        *)
(***************************************************************************)
C6_NoIdentifierIs400 ==
    \A r \in Requests :
        (Done(r) /\ entry[r] = "direct" /\ video_id[r] = None) =>
            /\ resp[r].status = 400
            /\ resp[r].detail = <<"Could not extract video ID from URL">>

(***************************************************************************)
(* C7, as claimed: a provider infrastructure error raised while /convert   *)
(* handles a validated URL ends the request with a 500 response whose      *)
(* detail carries the underlying error message.                            *)
(***************************************************************************)
InfrastructureFailure(r) == provider[r].failure \in InfrastructureErrors

C7_AsClaimed ==
    \A r \in Requests :
        (Answered(r) /\ InfrastructureFailure(r)) =>
            /\ resp[r].status = 500
            /\ \A i \in 1..Len(provider[r].failure.msg) :
                 provider[r].failure.msg[i] \in Range(resp[r].detail)

(***************************************************************************)
(* C7, amended: a provider infrastructure error raised while /convert      *)
(* handles a validated URL is caught inside get_video_transcript like any  *)
(* other provider error: the request ends with a 200 success response      *)
(* whose message has the transcript-unavailable note, and the underlying   *)
(* error message stays in get_video_transcript's result and is not in the  *)
(* response.                                                               *)
(***************************************************************************)
C7_InfrastructureErrorIsSoftSuccess ==
    \A r \in Requests :
        (Answered(r) /\ InfrastructureFailure(r)) =>
            /\ resp[r].status = 200
            /\ resp[r].success
            /\ HasNote(resp[r].message)
            /\ resp[r].transcript = None
            /\ resp[r].detail = None
            /\ resp[r].error = None
            /\ outcome[r].result.error = provider[r].failure.msg

\* list_transcripts failed with a connection error and the request was
\* answered.
C7_Witness ==
    \E r \in Requests :
        /\ Answered(r)
        /\ provider[r].failure = ConnectionError
        /\ ~provider[r].listed
        /\ resp[r].status = 200
        /\ outcome[r].result.error = <<"Connection refused">>

(***************************************************************************)
(* C9: /convert requests are not serialized: while one request is blocked  *)
(* inside a provider call (list or fetch), a second request that has       *)
(* arrived can start.                                                      *)
(***************************************************************************)
InProvider(r) == pc[r] \in {"list", "fetch"}

C9_SecondRequestCanStart ==
    \A r, q \in Requests :
        (InProvider(r) /\ pc[q] = "arrived") => ENABLED Validate(q)

\* What the code does instead: at most one request is ever inside the
\* handler.
OneRequestAtATime ==
    \A r, q \in Requests :
        (pc[r] \in {"handler", "list", "fetch"} /\
         pc[q] \in {"handler", "list", "fetch"}) => r = q

=============================================================================
